---- MODULE Spec2Model ----
(***************************************************************************)
(* Connectivity state machine of src/src/main.c (the STA-first,            *)
(* AP-on-failure revision that starts at line 921 of the file).            *)
(*                                                                         *)
(* Three execution contexts share current_wifi_state, sta_retry_count,     *)
(* ap_enabled and ap_netif without any lock:                               *)
(*   - app_main (boot), position pcB;                                      *)
(*   - the default event-loop task running wifi_event_handler, one event   *)
(*     at a time, position pcE;                                            *)
(*   - the HTTP server task running one URI handler at a time, pcH.        *)
(* Each action is one statement (or one run of statements that touch only  *)
(* task-private data) of the handler it belongs to.                        *)
(***************************************************************************)
EXTENDS Integers, Sequences, FiniteSets, TLC

(* ---- program constants ------------------------------------------------ *)
STA_MAX_RETRY_ATTEMPTS == 3
SSID_BUF == 32
PASSWORD_BUF == 64
HTTP_BUF == 256

WIFI_STATE_STA_ATTEMPTING == "STA_ATTEMPTING"
WIFI_STATE_STA_CONNECTED == "STA_CONNECTED"
WIFI_STATE_STA_FAILED_AP_ACTIVE == "STA_FAILED_AP_ACTIVE"
WIFI_STATE_AP_ACTIVE == "AP_ACTIVE"
wifi_state_t == {WIFI_STATE_STA_ATTEMPTING, WIFI_STATE_STA_CONNECTED,
                 WIFI_STATE_STA_FAILED_AP_ACTIVE, WIFI_STATE_AP_ACTIVE}

WIFI_MODE_NULL == "NULL"
WIFI_MODE_STA == "STA"
WIFI_MODE_APSTA == "APSTA"

WIFI_EVENT_STA_START == "STA_START"
WIFI_EVENT_STA_DISCONNECTED == "STA_DISCONNECTED"
IP_EVENT_STA_GOT_IP == "STA_GOT_IP"

(* ---- bounds of the model ---------------------------------------------- *)
MaxReq == 2        \* Control API requests served after boot
MaxQueue == 2      \* events waiting in the event loop's queue
MaxCalls == 2      \* direct calls of the fallback functions in a row

(* ---- inputs ------------------------------------------------------------ *)
NoKey == "<absent>"
Ssids == {"Office"}
Passwords == {"secret123"}
\* Values that do not fit: a name of SSID_BUF characters, a secret of
\* PASSWORD_BUF characters, and a secret that alone fills the receive buffer.
RECURSIVE Fill(_)
Fill(n) == IF n = 0 THEN "" ELSE "x" \o Fill(n - 1)
OverlongInputs == {<<Fill(SSID_BUF), "secret123">>, <<"Office", Fill(PASSWORD_BUF)>>,
                   <<"Office", Fill(HTTP_BUF)>>}
NvsEmpty == [ns |-> FALSE, ssid |-> NoKey, password |-> NoKey]
NvsInit == {NvsEmpty, [ns |-> TRUE, ssid |-> "HomeNet", password |-> "homepw"]}
EmptyStaConfig == [ssid |-> "", password |-> ""]
NoLoad == [ok |-> FALSE, cfg |-> EmptyStaConfig]

\* Values of the handlers' locals and of the history variables while no
\* handler is running.
NoReq == [op |-> "none", ssid |-> "", password |-> ""]
NoResp == [op |-> "none", success |-> FALSE, connected |-> FALSE,
           state |-> "", retry_count |-> 0, ap_enabled |-> FALSE]
NoPre == [state |-> "STA_ATTEMPTING", retry |-> 0, ap |-> FALSE,
          netif |-> FALSE, mode |-> "NULL"]
NoEvent == [ev |-> "none", state |-> "STA_ATTEMPTING", retry |-> 0, ap |-> FALSE]

VARIABLES
    current_wifi_state, sta_retry_count, ap_enabled, ap_netif,  \* main.c:976-980
    wifi_mode, sta_config, drv, evq,        \* the radio driver and its event queue
    nvs,                                    \* the "WiFi" namespace of NVS
    pcB, sta_config_exists,                 \* app_main
    pcE, ereg,                              \* wifi_event_handler and its register
    pcH, req, resp,                   \* the URI handler in progress
    napHold,                                \* contexts a pending vTaskDelay outlasts
    consecFails, gotIpSeen, nreq, pre, epre,  \* history variables
    superseded,                             \* a pending retry was overtaken by new credentials
    seen,                                   \* settled triples a get-status could have read
    calls,                                  \* the direct calls of the fallback functions made so far
    connects                                \* esp_wifi_connect calls since boot, while no address
                                            \* was acquired and no request served

shared == <<current_wifi_state, sta_retry_count, ap_enabled, ap_netif>>
radio == <<wifi_mode, sta_config, drv, evq>>
bootv == <<pcB, sta_config_exists>>
eventv == <<pcE, ereg>>
httpv == <<pcH, req, resp>>
hist == <<consecFails, gotIpSeen, nreq, pre, epre, superseded>>
vars == <<shared, radio, nvs, bootv, eventv, httpv, napHold, hist, seen, calls, connects>>

(* ---- the credential store ---------------------------------------------- *)
\* nvs_get_str into a buffer of cap bytes: fails when the key is absent or
\* the stored string and its terminator do not fit.
NvsGetStr(v, cap) == IF v = NoKey \/ Len(v) + 1 > cap THEN NoKey ELSE v

\* load_sta_config: false when the namespace or the ssid key is missing; a
\* missing password is read as the empty string.
load_sta_config(store) ==
    IF ~store.ns THEN NoLoad
    ELSE LET s == NvsGetStr(store.ssid, SSID_BUF)
             p == NvsGetStr(store.password, PASSWORD_BUF)
         IN  IF s = NoKey THEN NoLoad
             ELSE [ok |-> TRUE,
                   cfg |-> [ssid |-> s, password |-> IF p = NoKey THEN "" ELSE p]]

\* save_sta_config_to_nvs: every failure is logged and the function goes on.
\* fault: "none", "open" (nvs_open fails, nothing is written), "ssid" or
\* "password" (that nvs_set_str fails, the other one is written).
SaveFaults == {"none", "open", "ssid", "password"}
save_sta_config_to_nvs(store, ssid, password, fault) ==
    IF fault = "open" THEN store
    ELSE [ns |-> TRUE,
          ssid |-> IF fault = "ssid" THEN store.ssid ELSE ssid,
          password |-> IF fault = "password" THEN store.password ELSE password]

\* wifi_config_post_handler copies a field only when it fits its buffer;
\* otherwise the zero-initialised buffer is used as it is.
ParseField(s, cap) == IF Len(s) < cap THEN s ELSE ""

(* ---- the radio driver --------------------------------------------------- *)
\* esp_wifi_connect: starts an attempt unless one is in flight or the
\* station is already associated; with an empty station SSID the driver may
\* also refuse the call outright.
esp_wifi_connect(d, cfg) ==
    IF d # "idle" THEN {d}
    ELSE IF cfg.ssid = "" THEN {"idle", "connecting"} ELSE {"connecting"}

Post(q, e) == Append(q, e)

\* A vTaskDelay that begins while app_main is between esp_wifi_start and
\* the seeding of the state, or while a URI handler is running, ends after
\* that stretch of code has finished: the delays are 1000 ms and 5000 ms,
\* the code stretches are straight-line.  The scan handler is no such
\* stretch: its esp_wifi_scan_start blocks for the length of a scan.
BootSeeding == pcB \in {"seed_sta", "seed_ap_state", "seed_ap_flag"}
HttpRunning == pcH \notin {"off", "idle", "scan_start", "aborted"}
Busy == (IF BootSeeding THEN {"boot"} ELSE {}) \cup (IF HttpRunning THEN {"http"} ELSE {})

\* The same statement forgotten.
ResetCountKeeps(c) == c
\* main.c:1074, 1758 and 1885: sta_retry_count = 0
ResetCount(c) == 0

\* The same comparison, one short.
RetryBelowMaxOffByOne(c) == c < STA_MAX_RETRY_ATTEMPTS - 1
\* handle_sta_failure: if (sta_retry_count < STA_MAX_RETRY_ATTEMPTS)
RetryBelowMax(c) == c < STA_MAX_RETRY_ATTEMPTS

Sat(n) == IF n < STA_MAX_RETRY_ATTEMPTS THEN n + 1 ELSE n

\* The count of esp_wifi_connect calls after one more call; it is kept only
\* while nothing but failures has happened since boot, and no further
\* than one past STA_MAX_RETRY_ATTEMPTS.
CountConnect ==
    IF gotIpSeen \/ nreq > 0 THEN 0
    ELSE IF connects <= STA_MAX_RETRY_ATTEMPTS THEN connects + 1 ELSE connects

Init ==
    /\ current_wifi_state = WIFI_STATE_STA_ATTEMPTING
    /\ sta_retry_count = 0
    /\ ap_enabled = FALSE
    /\ ap_netif = FALSE
    /\ wifi_mode = WIFI_MODE_NULL
    /\ sta_config = EmptyStaConfig
    /\ drv = "stopped"
    /\ evq = <<>>
    /\ nvs \in NvsInit
    /\ pcB = "load"
    /\ sta_config_exists = FALSE
    /\ pcE = "idle"
    /\ ereg = 0
    /\ pcH = "off"
    /\ req = NoReq
    /\ resp = NoResp
    /\ napHold = {}
    /\ consecFails = 0
    /\ gotIpSeen = FALSE
    /\ nreq = 0
    /\ pre = NoPre
    /\ epre = NoEvent
    /\ superseded = FALSE
    /\ seen = {}
    /\ calls = <<>>
    /\ connects = 0

\* ESP_ERROR_CHECK on a driver call that returned an error: abort().  Every
\* task stops and what was in RAM is gone; the store keeps its contents.
Abort ==
    /\ pcB' = "aborted" /\ pcE' = "aborted" /\ pcH' = "aborted"
    /\ current_wifi_state' = WIFI_STATE_STA_ATTEMPTING
    /\ sta_retry_count' = 0
    /\ ap_enabled' = FALSE
    /\ ap_netif' = FALSE
    /\ wifi_mode' = WIFI_MODE_NULL
    /\ sta_config' = EmptyStaConfig
    /\ drv' = "stopped"
    /\ evq' = <<>>
    /\ sta_config_exists' = FALSE
    /\ ereg' = 0
    /\ req' = NoReq
    /\ resp' = NoResp
    /\ napHold' = {}
    /\ consecFails' = 0 /\ gotIpSeen' = FALSE /\ nreq' = 0
    /\ pre' = NoPre /\ epre' = NoEvent
    /\ superseded' = FALSE /\ seen' = {}
    /\ calls' = <<>>
    /\ connects' = 0
    /\ UNCHANGED nvs

(* ======================= app_main ======================================= *)
\* The start with credentials, in the radio mode of the other branch.
BootStartStaCombined ==
    /\ pcB = "load"
    /\ load_sta_config(nvs).ok
    /\ sta_config_exists' = TRUE
    /\ wifi_mode' = WIFI_MODE_APSTA
    /\ sta_config' = load_sta_config(nvs).cfg
    /\ drv' = "idle"
    /\ evq' = Post(evq, WIFI_EVENT_STA_START)
    /\ pcB' = "seed_sta"
    /\ UNCHANGED <<shared, nvs, eventv, httpv, napHold, hist>>
    /\ UNCHANGED <<seen, calls, connects>>

\* main.c:2059-2069: credentials found: station-only mode, station config,
\* esp_wifi_start (the driver posts WIFI_EVENT_STA_START).
BootStartSta ==
    /\ pcB = "load"
    /\ load_sta_config(nvs).ok
    /\ sta_config_exists' = TRUE
    /\ wifi_mode' = WIFI_MODE_STA
    /\ sta_config' = load_sta_config(nvs).cfg
    /\ drv' = "idle"
    /\ evq' = Post(evq, WIFI_EVENT_STA_START)
    /\ pcB' = "seed_sta"
    /\ UNCHANGED <<shared, nvs, eventv, httpv, napHold, hist>>
    /\ UNCHANGED <<seen, calls, connects>>

\* main.c:2070
BootSeedSta ==
    /\ pcB = "seed_sta"
    /\ current_wifi_state' = WIFI_STATE_STA_ATTEMPTING
    /\ pcB' = "httpd"
    /\ napHold' = napHold \ {"boot"}
    /\ UNCHANGED <<sta_retry_count, ap_enabled, ap_netif, radio, nvs,
                   sta_config_exists, eventv, httpv, hist>>
    /\ UNCHANGED <<seen, calls, connects>>

\* main.c:2072-2118: no credentials: the access-point interface is created,
\* combined mode, both configs (the station one empty), esp_wifi_start.
BootStartApSta ==
    /\ pcB = "load"
    /\ ~load_sta_config(nvs).ok
    /\ sta_config_exists' = FALSE
    /\ ap_netif' = TRUE
    /\ wifi_mode' = WIFI_MODE_APSTA
    /\ sta_config' = EmptyStaConfig
    /\ drv' = "idle"
    /\ evq' = Post(evq, WIFI_EVENT_STA_START)
    /\ pcB' = "seed_ap_state"
    /\ UNCHANGED <<current_wifi_state, sta_retry_count, ap_enabled, nvs,
                   eventv, httpv, napHold, hist>>
    /\ UNCHANGED <<seen, calls, connects>>

\* main.c:2120
BootSeedApState ==
    /\ pcB = "seed_ap_state"
    /\ current_wifi_state' = WIFI_STATE_AP_ACTIVE
    /\ pcB' = "seed_ap_flag"
    /\ UNCHANGED <<sta_retry_count, ap_enabled, ap_netif, radio, nvs,
                   sta_config_exists, eventv, httpv, napHold, hist>>
    /\ UNCHANGED <<seen, calls, connects>>

\* main.c:2121
BootSeedApFlag ==
    /\ pcB = "seed_ap_flag"
    /\ ap_enabled' = TRUE
    /\ pcB' = "httpd"
    /\ napHold' = napHold \ {"boot"}
    /\ UNCHANGED <<current_wifi_state, sta_retry_count, ap_netif, radio, nvs,
                   sta_config_exists, eventv, httpv, hist>>
    /\ UNCHANGED <<seen, calls, connects>>

\* main.c:2127-2134: start_webserver; requests are served from here on.
BootStartWebserver ==
    /\ pcB = "httpd"
    /\ pcB' = "done"
    /\ pcH' = "idle"
    /\ UNCHANGED <<shared, radio, nvs, sta_config_exists, eventv, req, resp, napHold, hist>>
    /\ UNCHANGED <<seen, calls, connects>>


(* ======================= the radio driver ================================ *)
\* A connection attempt fails: WIFI_EVENT_STA_DISCONNECTED.
DrvFail ==
    /\ drv = "connecting"
    /\ Len(evq) < MaxQueue
    /\ drv' = "idle"
    /\ evq' = Post(evq, WIFI_EVENT_STA_DISCONNECTED)
    /\ UNCHANGED <<shared, wifi_mode, sta_config, nvs, bootv, eventv, httpv,
                   napHold, hist>>
    /\ UNCHANGED <<seen, calls, connects>>

\* A connection attempt succeeds and DHCP completes: IP_EVENT_STA_GOT_IP.
\* There is no network to join with an empty station SSID.
DrvGotIp ==
    /\ drv = "connecting"
    /\ sta_config.ssid # ""
    /\ Len(evq) < MaxQueue
    /\ drv' = "connected"
    /\ evq' = Post(evq, IP_EVENT_STA_GOT_IP)
    /\ UNCHANGED <<shared, wifi_mode, sta_config, nvs, bootv, eventv, httpv,
                   napHold, hist>>
    /\ UNCHANGED <<seen, calls, connects>>

\* An established link is lost: WIFI_EVENT_STA_DISCONNECTED.
DrvLinkLost ==
    /\ drv = "connected"
    /\ Len(evq) < MaxQueue
    /\ drv' = "idle"
    /\ evq' = Post(evq, WIFI_EVENT_STA_DISCONNECTED)
    /\ UNCHANGED <<shared, wifi_mode, sta_config, nvs, bootv, eventv, httpv,
                   napHold, hist>>
    /\ UNCHANGED <<seen, calls, connects>>

(* ======================= wifi_event_handler ============================== *)
\* The triple a get-status reports on, and the moments at which the event
\* task is not in the middle of changing it: between events, and while it
\* sleeps in a vTaskDelay.
Triple == <<current_wifi_state, sta_retry_count, ap_enabled>>
EventTaskSettled == pcE \in {"idle", "retry_delay", "recon_delay"}

\* While wifi_status_get_handler runs, every settled triple is recorded.
SeenNext ==
    IF req.op = "status" /\ pcH # "send"
    THEN seen \cup (IF EventTaskSettled' THEN {Triple'} ELSE {})
    ELSE {}

Snapshot(e) == [ev |-> e, state |-> current_wifi_state,
                retry |-> sta_retry_count, ap |-> ap_enabled]

\* The handler returns to the event loop; its locals die with it.
EvReturn ==
    /\ pcE' = "idle"
    /\ ereg' = 0
    /\ epre' = NoEvent
    /\ superseded' = FALSE

histE == <<consecFails, gotIpSeen, nreq, pre>>

\* main.c:1024-1030
EvStaStart ==
    /\ pcE = "idle" /\ evq # <<>> /\ Head(evq) = WIFI_EVENT_STA_START
    /\ evq' = Tail(evq)
    /\ drv' \in esp_wifi_connect(drv, sta_config)
    /\ UNCHANGED <<shared, wifi_mode, sta_config, nvs, bootv, eventv, httpv,
                   napHold, hist>>
    /\ seen' = SeenNext /\ UNCHANGED calls /\ connects' = CountConnect

\* The same branch with handle_sta_failure in a plain else.
EvDisconnectedBranchElse(s) ==
    IF s = WIFI_STATE_STA_CONNECTED THEN "recon_set" ELSE "fail_read"

\* The same branch without the case of a failed attempt.
EvDisconnectedBranchDropsFailure(s) ==
    IF s = WIFI_STATE_STA_CONNECTED THEN "recon_set" ELSE "idle"

\* The same branch treating a lost link as a failed attempt.
EvDisconnectedBranchCounts(s) ==
    IF s \in {WIFI_STATE_STA_CONNECTED, WIFI_STATE_STA_ATTEMPTING} THEN "fail_read"
    ELSE "idle"

\* main.c:1031-1054: the branch taken on current_wifi_state.
EvDisconnectedBranch(s) ==
    IF s = WIFI_STATE_STA_CONNECTED THEN "recon_set"
    ELSE IF s = WIFI_STATE_STA_ATTEMPTING THEN "fail_read"
    ELSE "idle"

EvDisconnected ==
    /\ pcE = "idle" /\ evq # <<>> /\ Head(evq) = WIFI_EVENT_STA_DISCONNECTED
    /\ evq' = Tail(evq)
    /\ pcE' = EvDisconnectedBranch(current_wifi_state)
    /\ consecFails' = Sat(consecFails)
    /\ epre' = IF EvDisconnectedBranch(current_wifi_state) = "idle" THEN NoEvent
               ELSE Snapshot(WIFI_EVENT_STA_DISCONNECTED)
    /\ UNCHANGED <<shared, wifi_mode, sta_config, drv, nvs, bootv, ereg, httpv,
                   napHold, gotIpSeen, nreq, pre, superseded>>
    /\ seen' = SeenNext /\ UNCHANGED <<calls, connects>>

\* main.c:1040-1044: back to attempting, then vTaskDelay(1000 ms) begins.
EvReconnectSetState ==
    /\ pcE = "recon_set"
    /\ current_wifi_state' = WIFI_STATE_STA_ATTEMPTING
    /\ pcE' = "recon_delay"
    /\ napHold' = Busy
    /\ UNCHANGED <<sta_retry_count, ap_enabled, ap_netif, radio, nvs, bootv,
                   ereg, httpv, hist>>
    /\ seen' = SeenNext /\ UNCHANGED <<calls, connects>>

\* main.c:1044-1045: the delay ends, esp_wifi_connect.
EvReconnectConnect ==
    /\ pcE = "recon_delay"
    /\ napHold = {}
    /\ drv' \in esp_wifi_connect(drv, sta_config)
    /\ EvReturn
    /\ UNCHANGED <<shared, wifi_mode, sta_config, evq, nvs, bootv, httpv,
                   napHold, histE>>
    /\ seen' = SeenNext /\ UNCHANGED calls /\ connects' = CountConnect

\* main.c:1226, sta_retry_count++: the load ...
EvFailureLoad ==
    /\ pcE = "fail_read"
    /\ ereg' = sta_retry_count
    /\ pcE' = "fail_write"
    /\ UNCHANGED <<shared, radio, nvs, bootv, httpv, napHold, hist>>
    /\ seen' = SeenNext /\ UNCHANGED <<calls, connects>>

\* ... and the store.
EvFailureStore ==
    /\ pcE = "fail_write"
    /\ sta_retry_count' = ereg + 1
    /\ pcE' = "fail_cmp"
    /\ UNCHANGED <<current_wifi_state, ap_enabled, ap_netif, radio, nvs, bootv,
                   ereg, httpv, napHold, hist>>
    /\ seen' = SeenNext /\ UNCHANGED <<calls, connects>>

\* main.c:1228-1237: the comparison, on the value kept in the register or
\* on the variable read again; below the cap vTaskDelay(5000 ms) begins.
EvFailureRetry ==
    /\ pcE = "fail_cmp"
    /\ \E v \in {ereg + 1, sta_retry_count} : RetryBelowMax(v)
    /\ pcE' = "retry_delay"
    /\ ereg' = 0
    /\ napHold' = Busy
    /\ UNCHANGED <<shared, radio, nvs, bootv, httpv, hist>>
    /\ seen' = SeenNext /\ UNCHANGED <<calls, connects>>

\* main.c:1237-1241: the delay ends, esp_wifi_connect.
EvRetryConnect ==
    /\ pcE = "retry_delay"
    /\ napHold = {}
    /\ drv' \in esp_wifi_connect(drv, sta_config)
    /\ EvReturn
    /\ UNCHANGED <<shared, wifi_mode, sta_config, evq, nvs, bootv, httpv,
                   napHold, histE>>
    /\ seen' = SeenNext /\ UNCHANGED calls /\ connects' = CountConnect

\* main.c:1243-1249 and 1082: retries exhausted, enable_ap_broadcasting is
\* entered and tests ap_enabled.
EvFailureExhausted ==
    /\ pcE = "fail_cmp"
    /\ \E v \in {ereg + 1, sta_retry_count} : ~RetryBelowMax(v)
    /\ IF ~ap_enabled
       THEN pcE' = "en_netif" /\ ereg' = 0 /\ UNCHANGED <<epre, superseded>>
       ELSE EvReturn
    /\ UNCHANGED <<shared, radio, nvs, bootv, httpv, napHold, histE>>
    /\ seen' = SeenNext /\ UNCHANGED <<calls, connects>>

\* main.c:1087-1090
EvEnableNetif ==
    /\ pcE = "en_netif"
    /\ ap_netif' = TRUE
    /\ pcE' = "en_flag"
    /\ UNCHANGED <<current_wifi_state, sta_retry_count, ap_enabled, radio, nvs,
                   bootv, ereg, httpv, napHold, hist>>
    /\ seen' = SeenNext /\ UNCHANGED <<calls, connects>>

\* main.c:1092
EvEnableFlag ==
    /\ pcE = "en_flag"
    /\ ap_enabled' = TRUE
    /\ pcE' = "en_state"
    /\ UNCHANGED <<current_wifi_state, sta_retry_count, ap_netif, radio, nvs,
                   bootv, ereg, httpv, napHold, hist>>
    /\ seen' = SeenNext /\ UNCHANGED <<calls, connects>>

\* The same step writing the state of a boot without credentials.
EvEnableStateApActive ==
    /\ pcE = "en_state"
    /\ current_wifi_state' = WIFI_STATE_AP_ACTIVE
    /\ pcE' = "en_mode"
    /\ UNCHANGED <<sta_retry_count, ap_enabled, ap_netif, radio, nvs, bootv,
                   ereg, httpv, napHold, hist>>
    /\ seen' = SeenNext /\ UNCHANGED <<calls, connects>>

\* main.c:1093
EvEnableState ==
    /\ pcE = "en_state"
    /\ current_wifi_state' = WIFI_STATE_STA_FAILED_AP_ACTIVE
    /\ pcE' = "en_mode"
    /\ UNCHANGED <<sta_retry_count, ap_enabled, ap_netif, radio, nvs, bootv,
                   ereg, httpv, napHold, hist>>
    /\ seen' = SeenNext /\ UNCHANGED <<calls, connects>>

\* main.c:1116-1117
EvEnableMode ==
    /\ pcE = "en_mode"
    /\ wifi_mode' = WIFI_MODE_APSTA
    /\ EvReturn
    /\ UNCHANGED <<shared, sta_config, drv, evq, nvs, bootv, httpv,
                   napHold, histE>>
    /\ seen' = SeenNext /\ UNCHANGED <<calls, connects>>

\* main.c:1059-1068 and 1204: IP_EVENT_STA_GOT_IP, the test of ap_enabled
\* (made again on entry to disable_ap_broadcasting).
EvGotIp ==
    /\ pcE = "idle" /\ evq # <<>> /\ Head(evq) = IP_EVENT_STA_GOT_IP
    /\ evq' = Tail(evq)
    /\ pcE' = IF ap_enabled THEN "ip_dis_flag" ELSE "ip_count"
    /\ consecFails' = 0
    /\ gotIpSeen' = TRUE
    /\ epre' = Snapshot(IP_EVENT_STA_GOT_IP)
    /\ UNCHANGED <<shared, wifi_mode, sta_config, drv, nvs, bootv, ereg, httpv,
                   napHold, nreq, pre, superseded>>
    /\ seen' = SeenNext /\ UNCHANGED calls /\ connects' = 0

\* disable_ap_broadcasting called from the event handler: main.c:1208
EvDisableFlag ==
    /\ pcE = "ip_dis_flag"
    /\ ap_enabled' = FALSE
    /\ pcE' = "ip_dis_mode"
    /\ UNCHANGED <<current_wifi_state, sta_retry_count, ap_netif, radio, nvs,
                   bootv, ereg, httpv, napHold, hist>>
    /\ seen' = SeenNext /\ UNCHANGED <<calls, connects>>

\* main.c:1211
EvDisableMode ==
    /\ pcE = "ip_dis_mode"
    /\ wifi_mode' = WIFI_MODE_STA
    /\ pcE' = "ip_dis_netif"
    /\ UNCHANGED <<shared, sta_config, drv, evq, nvs, bootv, ereg, httpv,
                   napHold, hist>>
    /\ seen' = SeenNext /\ UNCHANGED <<calls, connects>>

\* main.c:1214-1218
EvDisableNetif ==
    /\ pcE = "ip_dis_netif"
    /\ ap_netif' = FALSE
    /\ pcE' = "ip_count"
    /\ UNCHANGED <<current_wifi_state, sta_retry_count, ap_enabled, radio, nvs,
                   bootv, ereg, httpv, napHold, hist>>
    /\ seen' = SeenNext /\ UNCHANGED <<calls, connects>>

\* main.c:1074
EvGotIpResetCount ==
    /\ pcE = "ip_count"
    /\ sta_retry_count' = ResetCount(sta_retry_count)
    /\ pcE' = "ip_state"
    /\ UNCHANGED <<current_wifi_state, ap_enabled, ap_netif, radio, nvs, bootv,
                   ereg, httpv, napHold, hist>>
    /\ seen' = SeenNext /\ UNCHANGED <<calls, connects>>

\* main.c:1075
EvGotIpSetState ==
    /\ pcE = "ip_state"
    /\ current_wifi_state' = WIFI_STATE_STA_CONNECTED
    /\ EvReturn
    /\ UNCHANGED <<sta_retry_count, ap_enabled, ap_netif, radio, nvs, bootv,
                   httpv, napHold, histE>>
    /\ seen' = SeenNext /\ UNCHANGED <<calls, connects>>


(* ======================= the Control API handlers ======================== *)
PreSnapshot == [state |-> current_wifi_state, retry |-> sta_retry_count,
                ap |-> ap_enabled, netif |-> ap_netif, mode |-> wifi_mode]

\* A request is taken off the socket by the server task.
Accept(op, s, p) ==
    /\ pcH = "idle"
    /\ nreq < MaxReq
    /\ nreq' = nreq + 1
    /\ req' = [op |-> op, ssid |-> s, password |-> p]
    /\ pre' = PreSnapshot
    /\ connects' = 0


\* The handler has built its response r and hands it to httpd_resp_send*.
Reply(r) ==
    /\ resp' = r
    /\ pcH' = "send"

\* The response is on the wire and the handler returns; its locals die
\* with it.
HttpSend ==
    /\ pcH = "send"
    /\ pcH' = "idle"
    /\ req' = NoReq
    /\ resp' = NoResp
    /\ pre' = NoPre
    /\ napHold' = napHold \ {"http"}
    /\ UNCHANGED <<shared, radio, nvs, bootv, eventv, consecFails, gotIpSeen, nreq,
                   epre, superseded>>
    /\ seen' = {} /\ UNCHANGED <<calls, connects>>

NoReply == [op |-> req.op, success |-> FALSE, connected |-> FALSE,
            state |-> "", retry_count |-> 0, ap_enabled |-> FALSE]

(* ---- get-status: wifi_status_get_handler -------------------------------- *)
\* main.c:1815-1816: esp_wifi_sta_get_ap_info succeeds when associated.
StatusApInfo ==
    /\ Accept("status", "", "")
    /\ resp' = [op |-> "status", success |-> TRUE, connected |-> (drv = "connected"),
                state |-> "", retry_count |-> 0, ap_enabled |-> FALSE]
    /\ pcH' = "st_state"
    /\ UNCHANGED <<shared, radio, nvs, bootv, eventv, napHold,
                   consecFails, gotIpSeen, epre, superseded>>
    /\ seen' = {IF EventTaskSettled THEN Triple ELSE <<epre.state, epre.retry, epre.ap>>}
    /\ UNCHANGED calls

\* The same rendering with the two fallback names exchanged.
StateStrSwapped(s) ==
    IF s = WIFI_STATE_STA_ATTEMPTING THEN "connecting"
    ELSE IF s = WIFI_STATE_STA_CONNECTED THEN "connected"
    ELSE IF s = WIFI_STATE_STA_FAILED_AP_ACTIVE THEN "ap_active"
    ELSE IF s = WIFI_STATE_AP_ACTIVE THEN "failed_ap_active"
    ELSE "unknown"
\* The same rendering without the case of a boot without credentials.
StateStrNoApActive(s) ==
    IF s = WIFI_STATE_STA_ATTEMPTING THEN "connecting"
    ELSE IF s = WIFI_STATE_STA_CONNECTED THEN "connected"
    ELSE IF s = WIFI_STATE_STA_FAILED_AP_ACTIVE THEN "failed_ap_active"
    ELSE "unknown"

\* main.c:1821-1838: the rendering of the state.
StateStr(s) ==
    IF s = WIFI_STATE_STA_ATTEMPTING THEN "connecting"
    ELSE IF s = WIFI_STATE_STA_CONNECTED THEN "connected"
    ELSE IF s = WIFI_STATE_STA_FAILED_AP_ACTIVE THEN "failed_ap_active"
    ELSE IF s = WIFI_STATE_AP_ACTIVE THEN "ap_active"
    ELSE "unknown"

StatusReadState ==
    /\ pcH = "st_state"
    /\ resp' = [resp EXCEPT !.state = StateStr(current_wifi_state)]
    /\ pcH' = "st_count"
    /\ UNCHANGED <<shared, radio, nvs, bootv, eventv, req, napHold, hist>>
    /\ UNCHANGED <<seen, calls, connects>>

\* The same read clearing the counter it reports.
StatusReadCountAndClear ==
    /\ pcH = "st_count"
    /\ resp' = [resp EXCEPT !.retry_count = sta_retry_count]
    /\ sta_retry_count' = 0
    /\ pcH' = "st_ap"
    /\ UNCHANGED <<current_wifi_state, ap_enabled, ap_netif, radio, nvs, bootv, eventv,
                   req, napHold, hist>>
    /\ UNCHANGED <<seen, calls, connects>>

\* main.c:1842-1851: the arguments of snprintf are read one after the other.
StatusReadCount ==
    /\ pcH = "st_count"
    /\ resp' = [resp EXCEPT !.retry_count = sta_retry_count]
    /\ pcH' = "st_ap"
    /\ UNCHANGED <<shared, radio, nvs, bootv, eventv, req, napHold, hist>>
    /\ UNCHANGED <<seen, calls, connects>>

StatusReadApAndSend ==
    /\ pcH = "st_ap"
    /\ Reply([resp EXCEPT !.ap_enabled = ap_enabled])
    /\ UNCHANGED <<shared, radio, nvs, bootv, eventv, req, napHold, hist>>
    /\ seen' = {} /\ UNCHANGED <<calls, connects>>

(* ---- submit-credentials: wifi_config_post_handler ----------------------- *)
\* The shortest body that carries the two values:
\* {"ssid":"<s>","password":"<p>"}
BodyLen(s, p) == 25 + Len(s) + Len(p)

\* main.c:1699-1752: the body is received and the two fields are extracted.
\* and main.c:1755: save_sta_config_to_nvs, which may meet a storage fault.
ConfigReceive(s, p) ==
    /\ BodyLen(s, p) < HTTP_BUF
    /\ Accept("config", s, p)
    /\ \E f \in SaveFaults :
          nvs' = save_sta_config_to_nvs(nvs, ParseField(s, SSID_BUF),
                                        ParseField(p, PASSWORD_BUF), f)
    /\ pcH' = "cfg_count"
    /\ UNCHANGED <<shared, radio, bootv, eventv, resp, napHold,
                   consecFails, gotIpSeen, epre, superseded>>
    /\ UNCHANGED <<seen, calls>>

\* A request with values that fit their fields.
ConfigReceiveSave == \E s \in Ssids, p \in Passwords : ConfigReceive(s, p)

\* A request with a value that does not fit its field.
ConfigReceiveOverlong == \E in \in OverlongInputs : ConfigReceive(in[1], in[2])

\* main.c:1704-1708: the body does not fit the receive buffer, error 400.
ConfigContentTooLong ==
    /\ \E in \in OverlongInputs :
          /\ BodyLen(in[1], in[2]) >= HTTP_BUF
          /\ Accept("config", in[1], in[2])
    /\ Reply([NoResp EXCEPT !.op = "config"])
    /\ UNCHANGED <<shared, radio, nvs, bootv, eventv, napHold,
                   consecFails, gotIpSeen, epre, superseded>>
    /\ UNCHANGED <<seen, calls>>

ConfigResetCount ==
    /\ pcH = "cfg_count"
    /\ sta_retry_count' = ResetCount(sta_retry_count)
    /\ pcH' = "cfg_state"
    /\ UNCHANGED <<current_wifi_state, ap_enabled, ap_netif, radio, nvs, bootv,
                   eventv, req, resp, napHold, hist>>
    /\ UNCHANGED <<seen, calls, connects>>

\* main.c:1759
ConfigSetState ==
    /\ pcH = "cfg_state"
    /\ current_wifi_state' = WIFI_STATE_STA_ATTEMPTING
    /\ pcH' = "dis_check"
    /\ UNCHANGED <<sta_retry_count, ap_enabled, ap_netif, radio, nvs, bootv,
                   eventv, req, resp, napHold, hist>>
    /\ UNCHANGED <<seen, calls, connects>>

\* Where disable_ap_broadcasting returns to.
AfterDisable == IF req.op = "config" THEN "cfg_load" ELSE "rt_check"

\* disable_ap_broadcasting called from a URI handler, main.c:1204 (for
\* submit-credentials behind the same test at main.c:1762)
HttpDisableCheck ==
    /\ pcH = "dis_check"
    /\ pcH' = IF ap_enabled THEN "dis_flag" ELSE AfterDisable
    /\ UNCHANGED <<shared, radio, nvs, bootv, eventv, req, resp, napHold, hist>>
    /\ UNCHANGED <<seen, calls, connects>>

\* main.c:1208
HttpDisableFlag ==
    /\ pcH = "dis_flag"
    /\ ap_enabled' = FALSE
    /\ pcH' = "dis_mode"
    /\ UNCHANGED <<current_wifi_state, sta_retry_count, ap_netif, radio, nvs,
                   bootv, eventv, req, resp, napHold, hist>>
    /\ UNCHANGED <<seen, calls, connects>>

\* main.c:1211
HttpDisableMode ==
    /\ pcH = "dis_mode"
    /\ wifi_mode' = WIFI_MODE_STA
    /\ pcH' = "dis_netif"
    /\ UNCHANGED <<shared, sta_config, drv, evq, nvs, bootv, eventv, req, resp, napHold, hist>>
    /\ UNCHANGED <<seen, calls, connects>>

\* main.c:1211: esp_wifi_set_mode returns an error.
HttpDisableModeRejected ==
    /\ pcH = "dis_mode"
    /\ Abort

\* main.c:1214-1218
HttpDisableNetif ==
    /\ pcH = "dis_netif"
    /\ ap_netif' = FALSE
    /\ pcH' = AfterDisable
    /\ UNCHANGED <<current_wifi_state, sta_retry_count, ap_enabled, radio, nvs,
                   bootv, eventv, req, resp, napHold, hist>>
    /\ UNCHANGED <<seen, calls, connects>>

\* The same step handing the radio the values of the request instead of
\* the configuration read back from the store.
ConfigConnectFromRequest ==
    /\ pcH = "cfg_load"
    /\ load_sta_config(nvs).ok
    /\ wifi_mode' = WIFI_MODE_STA
    /\ sta_config' = [ssid |-> req.ssid, password |-> req.password]
    /\ drv' \in esp_wifi_connect(drv, [ssid |-> req.ssid, password |-> req.password])
    /\ drv = "idle" => drv' = "connecting"
    /\ Reply([NoReply EXCEPT !.success = TRUE])
    /\ superseded' = (superseded \/ pcE = "retry_delay")
    /\ UNCHANGED <<shared, evq, nvs, bootv, eventv, req, napHold,
                   consecFails, gotIpSeen, nreq, pre, epre>>
    /\ UNCHANGED <<seen, calls, connects>>

\* main.c:1769-1788: the configuration is read back and, when it is
\* there, esp_wifi_set_mode(STA), esp_wifi_set_config, esp_wifi_connect and
\* the success response follow back to back.
ConfigConnect ==
    /\ pcH = "cfg_load"
    /\ load_sta_config(nvs).ok
    /\ wifi_mode' = WIFI_MODE_STA
    /\ sta_config' = load_sta_config(nvs).cfg
    /\ drv' \in esp_wifi_connect(drv, load_sta_config(nvs).cfg)
    /\ drv = "idle" => drv' = "connecting"
    /\ Reply([NoReply EXCEPT !.success = TRUE])
    /\ superseded' = (superseded \/ pcE = "retry_delay")
    /\ UNCHANGED <<shared, evq, nvs, bootv, eventv, req, napHold,
                   consecFails, gotIpSeen, nreq, pre, epre>>
    /\ UNCHANGED <<seen, calls, connects>>

\* main.c:1772-1774: one of the three driver calls returns an error.
ConfigDriverRejected ==
    /\ pcH = "cfg_load"
    /\ load_sta_config(nvs).ok
    /\ Abort

\* main.c:1790-1794: nothing to read back, error 500.
ConfigLoadFailed ==
    /\ pcH = "cfg_load"
    /\ ~load_sta_config(nvs).ok
    /\ Reply(NoReply)
    /\ UNCHANGED <<shared, radio, nvs, bootv, eventv, req, napHold, hist>>
    /\ UNCHANGED <<seen, calls, connects>>

(* ---- manual-retry: wifi_retry_post_handler ------------------------------ *)
\* main.c:1860-1882: the body carries "action":"retry".
RetryReceive ==
    /\ Accept("retry", "", "")
    /\ pcH' = "rt_count"
    /\ UNCHANGED <<shared, radio, nvs, bootv, eventv, resp, napHold,
                   consecFails, gotIpSeen, epre, superseded>>
    /\ UNCHANGED <<seen, calls>>

\* main.c:1885
RetryResetCount ==
    /\ pcH = "rt_count"
    /\ sta_retry_count' = ResetCount(sta_retry_count)
    /\ pcH' = "rt_state"
    /\ UNCHANGED <<current_wifi_state, ap_enabled, ap_netif, radio, nvs, bootv,
                   eventv, req, resp, napHold, hist>>
    /\ UNCHANGED <<seen, calls, connects>>

\* main.c:1886-1889: the state is set, disable_ap_broadcasting is called.
RetrySetState ==
    /\ pcH = "rt_state"
    /\ current_wifi_state' = WIFI_STATE_STA_ATTEMPTING
    /\ pcH' = "dis_check"
    /\ UNCHANGED <<sta_retry_count, ap_enabled, ap_netif, radio, nvs, bootv,
                   eventv, req, resp, napHold, hist>>
    /\ UNCHANGED <<seen, calls, connects>>

\* main.c:1891-1901: not connected: esp_wifi_set_mode(STA),
\* esp_wifi_connect and the success response follow back to back.
RetryConnect ==
    /\ pcH = "rt_check"
    /\ current_wifi_state # WIFI_STATE_STA_CONNECTED
    /\ wifi_mode' = WIFI_MODE_STA
    /\ drv' \in esp_wifi_connect(drv, sta_config)
    /\ Reply([NoReply EXCEPT !.success = TRUE])
    /\ UNCHANGED <<shared, sta_config, evq, nvs, bootv, eventv, req, napHold, hist>>
    /\ UNCHANGED <<seen, calls, connects>>

\* main.c:1896: esp_wifi_set_mode returns an error.
RetryModeRejected ==
    /\ pcH = "rt_check"
    /\ current_wifi_state # WIFI_STATE_STA_CONNECTED
    /\ Abort

\* main.c:1903-1908: "Already connected to STA"
RetryAlreadyConnected ==
    /\ pcH = "rt_check"
    /\ current_wifi_state = WIFI_STATE_STA_CONNECTED
    /\ Reply(NoReply)
    /\ UNCHANGED <<shared, radio, nvs, bootv, eventv, req, napHold, hist>>
    /\ UNCHANGED <<seen, calls, connects>>

(* ---- scan: wifi_scan_get_handler ---------------------------------------- *)
\* main.c:1556-1569
ScanReceive ==
    /\ Accept("scan", "", "")
    /\ pcH' = "scan_start"
    /\ UNCHANGED <<shared, radio, nvs, bootv, eventv, resp, napHold,
                   consecFails, gotIpSeen, epre, superseded>>
    /\ UNCHANGED <<seen, calls>>

\* main.c:1571-1647: the blocking scan succeeds, the list is sent.
ScanDone ==
    /\ pcH = "scan_start"
    /\ Reply([NoReply EXCEPT !.success = TRUE])
    /\ UNCHANGED <<shared, radio, nvs, bootv, eventv, req, napHold, hist>>
    /\ UNCHANGED <<seen, calls, connects>>

\* main.c:1571: esp_wifi_scan_start returns an error.
ScanRejected ==
    /\ pcH = "scan_start"
    /\ Abort

(* ======================= the fallback functions as a whole =============== *)
\* What enable_ap_broadcasting and disable_ap_broadcasting read and write,
\* and what a call of one of them does besides: interfaces created and
\* destroyed, commands given to the radio driver.
FallbackState == [current_wifi_state |-> current_wifi_state, ap_enabled |-> ap_enabled,
                  ap_netif |-> ap_netif, wifi_mode |-> wifi_mode]
NoEffects == [created |-> 0, destroyed |-> 0, commands |-> 0]

\* The same function without the test of ap_enabled around its body.
enable_ap_broadcasting_unguarded(s) ==
    [st |-> [current_wifi_state |-> WIFI_STATE_STA_FAILED_AP_ACTIVE,
             ap_enabled |-> TRUE, ap_netif |-> TRUE, wifi_mode |-> WIFI_MODE_APSTA],
     fx |-> [created |-> IF s.ap_netif THEN 0 ELSE 1, destroyed |-> 0, commands |-> 2]]

\* main.c:1080-1121, run from entry to return: esp_wifi_set_mode and
\* esp_wifi_set_config are its two commands.
enable_ap_broadcasting(s) ==
    IF ~s.ap_enabled
    THEN [st |-> [current_wifi_state |-> WIFI_STATE_STA_FAILED_AP_ACTIVE,
                  ap_enabled |-> TRUE, ap_netif |-> TRUE, wifi_mode |-> WIFI_MODE_APSTA],
          fx |-> [created |-> IF s.ap_netif THEN 0 ELSE 1, destroyed |-> 0, commands |-> 2]]
    ELSE [st |-> s, fx |-> NoEffects]

\* main.c:1202-1222, run from entry to return: esp_wifi_set_mode is its
\* one command.
disable_ap_broadcasting(s) ==
    IF s.ap_enabled
    THEN [st |-> [s EXCEPT !.ap_enabled = FALSE, !.wifi_mode = WIFI_MODE_STA,
                           !.ap_netif = FALSE],
          fx |-> [created |-> 0, destroyed |-> IF s.ap_netif THEN 1 ELSE 0, commands |-> 1]]
    ELSE [st |-> s, fx |-> NoEffects]

\* The values the four variables take together while the program runs.
FallbackStates ==
    {s \in [current_wifi_state : wifi_state_t, ap_enabled : BOOLEAN, ap_netif : BOOLEAN,
            wifi_mode : {WIFI_MODE_STA, WIFI_MODE_APSTA}] :
        /\ s.current_wifi_state = WIFI_STATE_STA_CONNECTED => ~s.ap_enabled
        /\ s.current_wifi_state = WIFI_STATE_AP_ACTIVE =>
              (s.ap_netif /\ s.wifi_mode = WIFI_MODE_APSTA)}

\* The program after boot, between events and between requests, in any of
\* those states.
InitCalls ==
    /\ \E s \in FallbackStates :
          /\ current_wifi_state = s.current_wifi_state
          /\ ap_enabled = s.ap_enabled
          /\ ap_netif = s.ap_netif
          /\ wifi_mode = s.wifi_mode
    /\ sta_retry_count = 0
    /\ sta_config = EmptyStaConfig
    /\ drv = "idle"
    /\ evq = <<>>
    /\ nvs = NvsEmpty
    /\ pcB = "done"
    /\ sta_config_exists = FALSE
    /\ pcE = "idle"
    /\ ereg = 0
    /\ pcH = "idle"
    /\ req = NoReq
    /\ resp = NoResp
    /\ napHold = {}
    /\ consecFails = 0
    /\ gotIpSeen = FALSE
    /\ nreq = 0
    /\ pre = NoPre
    /\ epre = NoEvent
    /\ superseded = FALSE
    /\ seen = {}
    /\ calls = <<>>
    /\ connects = 0

\* One call of fn, which returns r, with nothing running in between.
Call(fn, r) ==
    /\ pcB = "done"
    /\ Len(calls) < MaxCalls
    /\ current_wifi_state' = r.st.current_wifi_state
    /\ ap_enabled' = r.st.ap_enabled
    /\ ap_netif' = r.st.ap_netif
    /\ wifi_mode' = r.st.wifi_mode
    /\ calls' = Append(calls, [fn |-> fn, before |-> FallbackState, after |-> r.st,
                               fx |-> r.fx])
    /\ UNCHANGED <<sta_retry_count, sta_config, drv, evq, nvs, bootv, eventv, httpv,
                   napHold, hist, seen, connects>>

CallEnable == Call("enable", enable_ap_broadcasting(FallbackState))

CallDisable == Call("disable", disable_ap_broadcasting(FallbackState))

\* main.c:1116, 1117 and 1211: a command of the call returns an error.
CallRejected ==
    /\ pcB = "done"
    /\ Len(calls) < MaxCalls
    /\ \/ enable_ap_broadcasting(FallbackState).fx.commands > 0
       \/ disable_ap_broadcasting(FallbackState).fx.commands > 0
    /\ Abort

NextCalls == CallEnable \/ CallDisable \/ CallRejected

SpecCalls == InitCalls /\ [][NextCalls]_vars

(* ======================= the specification =============================== *)
Boot == BootStartSta \/ BootSeedSta \/ BootStartApSta \/ BootSeedApState
        \/ BootSeedApFlag \/ BootStartWebserver

Driver == DrvFail \/ DrvGotIp \/ DrvLinkLost

EventTask ==
    \/ EvStaStart \/ EvDisconnected \/ EvReconnectSetState \/ EvReconnectConnect
    \/ EvFailureLoad \/ EvFailureStore \/ EvFailureRetry \/ EvRetryConnect
    \/ EvFailureExhausted \/ EvEnableNetif \/ EvEnableFlag \/ EvEnableState
    \/ EvEnableMode \/ EvGotIp \/ EvDisableFlag
    \/ EvDisableMode \/ EvDisableNetif \/ EvGotIpResetCount \/ EvGotIpSetState

HttpTask ==
    \/ StatusApInfo \/ StatusReadState \/ StatusReadCount \/ StatusReadApAndSend
    \/ ConfigReceiveSave \/ ConfigResetCount \/ ConfigSetState
    \/ HttpDisableCheck \/ HttpDisableFlag \/ HttpDisableMode
    \/ HttpDisableModeRejected
    \/ HttpDisableNetif \/ ConfigConnect \/ ConfigDriverRejected
    \/ ConfigLoadFailed
    \/ RetryReceive \/ RetryResetCount \/ RetrySetState
    \/ RetryConnect \/ RetryModeRejected \/ RetryAlreadyConnected
    \/ ScanReceive \/ ScanDone \/ ScanRejected \/ HttpSend

Next == Boot \/ Driver \/ EventTask \/ HttpTask

Spec == Init /\ [][Next]_vars

\* The same program served requests with values of any length.
NextAnyInput == Next \/ ConfigReceiveOverlong \/ ConfigContentTooLong

SpecAnyInput == Init /\ [][NextAnyInput]_vars


(* ---- the program left alone with a network that goes away -------------- *)
\* No Control API request arrives, and the network lets the station in at
\* most once: every attempt after that ends in a station disconnect.
DrvGotIpOnce ==
    /\ ~gotIpSeen
    /\ \A i \in 1..Len(evq) : evq[i] # IP_EVENT_STA_GOT_IP
    /\ DrvGotIp

\* wifi_event_handler without the call of disable_ap_broadcasting, which
\* it makes only for an address acquired while the fallback is enabled.
EventTaskUnattended ==
    \/ EvStaStart \/ EvDisconnected \/ EvReconnectSetState \/ EvReconnectConnect
    \/ EvFailureLoad \/ EvFailureStore \/ EvFailureRetry \/ EvRetryConnect
    \/ EvFailureExhausted \/ EvEnableNetif \/ EvEnableFlag \/ EvEnableState
    \/ EvEnableMode \/ EvGotIp \/ EvGotIpResetCount \/ EvGotIpSetState

NextUnattended == Boot \/ DrvFail \/ DrvLinkLost \/ DrvGotIpOnce \/ EventTaskUnattended

\* app_main runs to its end, the event loop task handles what is queued and
\* wakes from its delays, an attempt comes to an end and a link to a
\* network that goes away is lost.
SpecUnattended ==
    /\ Init /\ [][NextUnattended]_vars
    /\ WF_vars(Boot) /\ WF_vars(EventTaskUnattended)
    /\ WF_vars(DrvFail) /\ WF_vars(DrvLinkLost)

(* ======================= the claims ====================================== *)
\* The step in which a URI handler makes its last change and hands over its
\* response, and the step in which the event handler returns.
HttpCompletes(op) == req.op = op /\ pcH # "send" /\ pcH' = "send"
EvCompletes(e) == epre.ev = e /\ pcE # "idle" /\ pcE' = "idle"
HttpIssuesConnect == pcH \in {"cfg_load", "rt_check"} /\ pcH' = "send" /\ resp'.success

FallbackComesUp ==
    \/ ~ap_enabled /\ ap_enabled'
    \/ wifi_mode # WIFI_MODE_APSTA /\ wifi_mode' = WIFI_MODE_APSTA

\* C1: after a boot that found persisted credentials, no step enables the
\* fallback (sets ap_enabled or puts the radio in combined mode) unless the
\* last STA_MAX_RETRY_ATTEMPTS events handled before it were station
\* disconnects with no address-acquired event among them.
C1_NoFallbackBeforeMaxFailures ==
    [][(sta_config_exists /\ FallbackComesUp)
          => consecFails >= STA_MAX_RETRY_ATTEMPTS]_vars

C1_Witness ==
    /\ sta_config_exists
    /\ ap_enabled /\ wifi_mode = WIFI_MODE_APSTA
    /\ consecFails >= STA_MAX_RETRY_ATTEMPTS

\* C2: the retry counter stays within 0..STA_MAX_RETRY_ATTEMPTS.
C2_RetryCountBounded ==
    sta_retry_count >= 0 /\ sta_retry_count <= STA_MAX_RETRY_ATTEMPTS

\* C3: ap_enabled is true exactly when the access-point interface exists.
C3_FlagIffInterface == ap_enabled <=> ap_netif


\* C4: a submit-credentials request with well-formed values ends accepted,
\* and at the step that ends it the state is attempting, the counter 0, the
\* fallback off (flag, interface, station-only radio), a connect has been
\* issued and the store reads back the submitted pair.
C4_SubmitEndsAttempting ==
    [][HttpCompletes("config") =>
          /\ resp'.success
          /\ HttpIssuesConnect
          /\ current_wifi_state' = WIFI_STATE_STA_ATTEMPTING
          /\ sta_retry_count' = 0
          /\ ~ap_enabled' /\ ~ap_netif'
          /\ wifi_mode' = WIFI_MODE_STA
          /\ load_sta_config(nvs').ok
          /\ load_sta_config(nvs').cfg = [ssid |-> req.ssid, password |-> req.password]]_vars

\* C5: a manual retry that arrives in state connected ends with the state
\* still connected, the counter, the flag and the radio mode as they were,
\* and without a connect.
C5_RetryWhileConnectedNoOp ==
    [][(HttpCompletes("retry") /\ pre.state = WIFI_STATE_STA_CONNECTED) =>
          /\ ~HttpIssuesConnect
          /\ current_wifi_state' = WIFI_STATE_STA_CONNECTED
          /\ sta_retry_count' = pre.retry
          /\ ap_enabled' = pre.ap
          /\ wifi_mode' = pre.mode]_vars

\* Nothing but station disconnects has been handled since boot: no
\* address-acquired event, no Control API request.
OnlyFailuresSinceBoot == ~gotIpSeen /\ nreq = 0

\* C6: after a boot with persisted credentials, when the handling of the
\* third station disconnect ends (no address-acquired event and no request
\* since boot), the state is failed-with-fallback, the counter is 3 and the
\* fallback is up: flag, interface, combined mode.
C6_ThreeFailuresRaiseFallback ==
    [][(/\ EvCompletes(WIFI_EVENT_STA_DISCONNECTED)
        /\ sta_config_exists /\ OnlyFailuresSinceBoot'
        /\ consecFails = STA_MAX_RETRY_ATTEMPTS) =>
          /\ current_wifi_state' = WIFI_STATE_STA_FAILED_AP_ACTIVE
          /\ sta_retry_count' = STA_MAX_RETRY_ATTEMPTS
          /\ ap_enabled' /\ ap_netif'
          /\ wifi_mode' = WIFI_MODE_APSTA]_vars

C6_Witness ==
    /\ sta_config_exists /\ OnlyFailuresSinceBoot /\ pcB = "done"
    /\ consecFails = STA_MAX_RETRY_ATTEMPTS /\ pcE = "idle"
    /\ current_wifi_state = WIFI_STATE_STA_FAILED_AP_ACTIVE
    /\ sta_retry_count = STA_MAX_RETRY_ATTEMPTS
    /\ ap_enabled /\ ap_netif /\ wifi_mode = WIFI_MODE_APSTA

C8_BootWithoutCredentials ==
    [][/\ (pcB = "seed_ap_flag" /\ pcB' # pcB) =>
             /\ current_wifi_state' = WIFI_STATE_AP_ACTIVE
             /\ ap_enabled' /\ ap_netif'
             /\ wifi_mode' = WIFI_MODE_APSTA
       /\ (HttpCompletes("status") /\ ~sta_config_exists /\ nreq = 1) =>
             /\ resp'.state = "ap_active"
             /\ resp'.ap_enabled]_vars

C8_Witness ==
    /\ ~sta_config_exists /\ nreq = 1
    /\ pcH = "send" /\ resp.op = "status"
    /\ resp.state = "ap_active" /\ resp.ap_enabled

\* C9: a boot with persisted credentials ends its seeding with the state
\* attempting, the fallback off (flag and interface), and the radio started
\* in station-only mode with the credentials read from the store.
C9_BootWithCredentials ==
    [][(pcB = "seed_sta" /\ pcB' # pcB) =>
          /\ current_wifi_state' = WIFI_STATE_STA_ATTEMPTING
          /\ ~ap_enabled' /\ ~ap_netif'
          /\ wifi_mode' = WIFI_MODE_STA
          /\ drv' # "stopped"
          /\ sta_config' = [ssid |-> nvs.ssid, password |-> nvs.password]]_vars

C9_Witness ==
    /\ pcB = "httpd" /\ sta_config_exists
    /\ current_wifi_state = WIFI_STATE_STA_ATTEMPTING
    /\ wifi_mode = WIFI_MODE_STA /\ sta_config.ssid = "HomeNet"

\* C10: the counter is 0 in the step that enters the state connected, and
\* in the step that ends an accepted submit-credentials or a manual retry.
C10_CounterResetOnEntry ==
    [][/\ (current_wifi_state # WIFI_STATE_STA_CONNECTED
           /\ current_wifi_state' = WIFI_STATE_STA_CONNECTED) => sta_retry_count' = 0
       /\ (HttpCompletes("config") /\ resp'.success) => sta_retry_count' = 0
       /\ HttpCompletes("retry") => sta_retry_count' = 0]_vars

\* C11: a manual retry that arrives in state failed-with-fallback or
\* fallback-active ends with the state attempting, the counter 0, the
\* fallback off (flag, interface, station-only radio) and a connect issued.
C11_RetryFromFallback ==
    [][(/\ HttpCompletes("retry")
        /\ pre.state \in {WIFI_STATE_STA_FAILED_AP_ACTIVE, WIFI_STATE_AP_ACTIVE}) =>
          /\ HttpIssuesConnect
          /\ current_wifi_state' = WIFI_STATE_STA_ATTEMPTING
          /\ sta_retry_count' = 0
          /\ ~ap_enabled' /\ ~ap_netif'
          /\ wifi_mode' = WIFI_MODE_STA]_vars

\* C12: a manual retry that arrives in state attempting changes nothing:
\* state, counter, fallback flag and radio mode end as they were and no
\* connect is issued.
C12_RetryWhileAttemptingNoOp ==
    [][(HttpCompletes("retry") /\ pre.state = WIFI_STATE_STA_ATTEMPTING) =>
          /\ ~HttpIssuesConnect
          /\ current_wifi_state' = WIFI_STATE_STA_ATTEMPTING
          /\ sta_retry_count' = pre.retry
          /\ ap_enabled' = pre.ap
          /\ wifi_mode' = pre.mode]_vars

\* A request whose name or secret does not fit the credential fields.
Overlong(r) == Len(r.ssid) >= SSID_BUF \/ Len(r.password) >= PASSWORD_BUF

\* C13: a submit-credentials request with an overlong name or secret
\* persists nothing and ends rejected, without a connect, with state,
\* counter and fallback flag as they were when it arrived.
C13_OverlongRejected ==
    [][/\ (pcH = "idle" /\ req'.op = "config" /\ Overlong(req')) => nvs' = nvs
       /\ (HttpCompletes("config") /\ Overlong(req)) =>
             /\ ~resp'.success
             /\ ~HttpIssuesConnect
             /\ current_wifi_state' = pre.state
             /\ sta_retry_count' = pre.retry
             /\ ap_enabled' = pre.ap]_vars

\* C14: a retry whose delay was pending when new credentials were submitted
\* and connected is cancelled: its delay does not end in a connect of its
\* own.
C14_PendingRetryCancelled ==
    [][~(superseded /\ pcE = "retry_delay" /\ pcE' = "idle")]_vars

\* What a get-status reports, and how a shared triple is rendered.
Reported(r) == <<r.state, r.retry_count, r.ap_enabled>>
Rendered(t) == <<StateStr(t[1]), t[2], t[3]>>

\* C16: the triple of a get-status that ends while the event task is not in
\* the middle of a transition is one the shared triple had at a moment of
\* the request when no transition was under way (or had before the
\* transition that was under way when the request arrived).
C16_NoTornStatus ==
    [][(HttpCompletes("status") /\ EventTaskSettled') =>
          Reported(resp') \in {Rendered(t) : t \in seen}]_vars

\* The event task sleeps in the retry delay or in the reconnect delay.
DelayPending == pcE \in {"retry_delay", "recon_delay"}

\* C15: a delay does not keep a delivered event waiting: no delay expires
\* while a station-disconnected or address-acquired event is still in the
\* queue of the event loop.
C15_DelayDoesNotBlockEvents ==
    [][~(/\ DelayPending /\ evq # <<>>
         /\ Head(evq) \in {WIFI_EVENT_STA_DISCONNECTED, IP_EVENT_STA_GOT_IP}
         /\ pcE' = "idle")]_vars

\* enable_ap_broadcasting has passed its test and not yet returned;
\* likewise disable_ap_broadcasting, in either task.
EnableInProgress == pcE \in {"en_netif", "en_flag", "en_state", "en_mode"}
DisableInProgress ==
    \/ pcH \in {"dis_flag", "dis_mode", "dis_netif"}
    \/ pcE \in {"ip_dis_flag", "ip_dis_mode", "ip_dis_netif"}

\* C17: enable_ap_broadcasting and disable_ap_broadcasting are never in
\* progress at the same time.
C17_EnableDisableExclusive == ~(EnableInProgress /\ DisableInProgress)

\* The radio mode that goes with the fallback flag.
ModeMatchesFlag ==
    wifi_mode = (IF ap_enabled THEN WIFI_MODE_APSTA ELSE WIFI_MODE_STA)

\* C18: when a scan or a submit-credentials request starts, and whenever
\* boot is over and no handler is running, the radio is in combined mode if
\* ap_enabled is true and in station-only mode otherwise.
C18_NoHalfSwitchedMode ==
    [][/\ (pcH = "idle" /\ pcH' # "idle" /\ req'.op \in {"scan", "config"})
             => ModeMatchesFlag
       /\ (pcB' = "done" /\ pcE' = "idle" /\ pcH' = "idle") => ModeMatchesFlag']_vars

\* The step in which the radio driver rejects a command issued for a
\* Control API request: one of the checked calls, or the unchecked
\* esp_wifi_connect of manual-retry leaving the driver idle.
DriverRejects ==
    \/ ConfigDriverRejected \/ RetryModeRejected
    \/ HttpDisableModeRejected \/ ScanRejected
    \/ (RetryConnect /\ drv = "idle" /\ drv' = "idle")

\* C19: when the driver rejects a command issued for a request, the request
\* is answered as rejected, the program keeps running, and state, counter
\* and fallback (flag and interface) are what they were when the request
\* arrived.
C19_DriverRejectionContained ==
    [][DriverRejects =>
          /\ pcH' = "send" /\ ~resp'.success
          /\ pcB' = "done"
          /\ current_wifi_state' = pre.state
          /\ sta_retry_count' = pre.retry
          /\ ap_enabled' = pre.ap /\ ap_netif' = pre.netif]_vars

\* The pair a submit-credentials request carries, and the case that the
\* store does not read it back after save_sta_config_to_nvs.
Submitted == [ssid |-> req.ssid, password |-> req.password]
SaveFailed ==
    ~load_sta_config(nvs).ok \/ load_sta_config(nvs).cfg # Submitted

\* C20: when persisting the submitted credentials failed, the request still
\* ends with a connect issued, and the station config handed to the radio
\* is the submitted name and secret.
C20_AttemptSurvivesSaveFailure ==
    [][(HttpCompletes("config") /\ SaveFailed) =>
          /\ HttpIssuesConnect
          /\ sta_config' = Submitted]_vars

\* C21: a save is atomic as load sees it: after any step that changes the
\* store, load returns the pair it returned before or the complete pair
\* that was submitted, never a mixture of the two.
C21_SaveAtomic ==
    [][nvs' # nvs =>
          \/ load_sta_config(nvs') = load_sta_config(nvs)
          \/ load_sta_config(nvs') =
                [ok |-> TRUE, cfg |-> [ssid |-> req'.ssid, password |-> req'.password]]]_vars

\* C22: in submit-credentials the save comes first: the step that writes
\* the store touches neither the station config of the radio nor the
\* driver, and the later step that hands the radio a station config and
\* issues the connect hands it exactly what the store reads back at that
\* moment.  After boot no other step changes the station config.
C22_SaveBeforeConnect ==
    [][/\ nvs' # nvs => (sta_config' = sta_config /\ drv' = drv)
       /\ (pcB = "done" /\ pcH' # "aborted" /\ sta_config' # sta_config)
             => HttpCompletes("config")
       /\ (HttpCompletes("config") /\ HttpIssuesConnect) =>
             /\ nvs' = nvs
             /\ load_sta_config(nvs).ok
             /\ sta_config' = load_sta_config(nvs).cfg]_vars

C22_Witness ==
    /\ pcH = "send" /\ req.op = "config" /\ resp.success
    /\ sta_config = [ssid |-> req.ssid, password |-> req.password]
    /\ load_sta_config(nvs).cfg = sta_config
    /\ drv = "connecting"

\* C23: of two calls of enable_ap_broadcasting in a row, or of two calls of
\* disable_ap_broadcasting in a row, the second leaves ap_enabled, the
\* interface, the radio mode and the state as the first left them, creates
\* and destroys no interface and gives the radio no command.
C23_FallbackCallsIdempotent ==
    \A i \in 2..Len(calls) :
        calls[i].fn = calls[i - 1].fn =>
            /\ calls[i].before = calls[i - 1].after
            /\ calls[i].after = calls[i - 1].after
            /\ calls[i].fx = NoEffects

C23_Witness ==
    /\ Len(calls) = 2
    /\ calls[1].fn = "enable" /\ calls[2].fn = "enable"
    /\ calls[1].fx.created = 1 /\ calls[1].fx.commands = 2
    /\ ap_enabled /\ ap_netif

\* The step in which the event handler calls esp_wifi_connect at the end of
\* the reconnect delay or of the retry delay.
EvIssuesConnect == pcE \in {"recon_delay", "retry_delay"} /\ pcE' = "idle"

\* C24: when the handling of a station disconnect that found the state
\* connected ends, the state is attempting, the counter is 0 as it was when
\* the event was taken up (the disconnect is not counted), and the step
\* that ends it is the esp_wifi_connect after the reconnect delay.
C24_DisconnectWhileConnected ==
    [][(/\ EvCompletes(WIFI_EVENT_STA_DISCONNECTED)
        /\ epre.state = WIFI_STATE_STA_CONNECTED) =>
          /\ EvIssuesConnect /\ pcE = "recon_delay"
          /\ current_wifi_state' = WIFI_STATE_STA_ATTEMPTING
          /\ epre.retry = 0
          /\ sta_retry_count' = 0]_vars

C24_Witness ==
    /\ gotIpSeen /\ consecFails = 1 /\ nreq = 0
    /\ pcE = "idle" /\ evq = <<>>
    /\ current_wifi_state = WIFI_STATE_STA_ATTEMPTING
    /\ sta_retry_count = 0
    /\ drv = "connecting"

\* C25: when the handling of a station disconnect that found the state
\* attempting and the counter below STA_MAX_RETRY_ATTEMPTS ends, the state
\* is attempting, the counter is one more than it was when the event was
\* taken up, a fallback that was off is still off, and the step that ends
\* it is the esp_wifi_connect after the retry delay.
C25_FailureBelowMaxRetries ==
    [][(/\ EvCompletes(WIFI_EVENT_STA_DISCONNECTED)
        /\ epre.state = WIFI_STATE_STA_ATTEMPTING
        /\ epre.retry < STA_MAX_RETRY_ATTEMPTS) =>
          /\ EvIssuesConnect /\ pcE = "retry_delay"
          /\ current_wifi_state' = WIFI_STATE_STA_ATTEMPTING
          /\ sta_retry_count' = epre.retry + 1
          /\ ~epre.ap => ~ap_enabled']_vars

\* C26: left alone after a boot with persisted credentials, with every
\* attempt (after at most one success) ending in a station disconnect, the
\* program reaches the state failed-with-fallback with the fallback enabled.
C26_FailoverLive ==
    (sta_config_exists /\ current_wifi_state \in {WIFI_STATE_STA_ATTEMPTING,
                                                   WIFI_STATE_STA_CONNECTED})
        ~> (current_wifi_state = WIFI_STATE_STA_FAILED_AP_ACTIVE /\ ap_enabled)

C26_Witness ==
    /\ sta_config_exists /\ gotIpSeen /\ pcE = "idle"
    /\ current_wifi_state = WIFI_STATE_STA_FAILED_AP_ACTIVE
    /\ ap_enabled /\ ap_netif /\ wifi_mode = WIFI_MODE_APSTA
    /\ consecFails = STA_MAX_RETRY_ATTEMPTS

\* C27: the counter grows only in the step of the event handler that
\* stores the increment of handle_sta_failure, for a station disconnect
\* that was taken up while the state was attempting; no step of a URI
\* handler, of the address-acquired handling or of app_main makes it grow.
C27_CounterGrowsOnlyOnFailure ==
    [][sta_retry_count' > sta_retry_count =>
          /\ pcE = "fail_write" /\ pcE' = "fail_cmp"
          /\ epre.ev = WIFI_EVENT_STA_DISCONNECTED
          /\ epre.state = WIFI_STATE_STA_ATTEMPTING
          /\ UNCHANGED <<pcB, pcH>>]_vars

C27_Witness ==
    /\ pcE = "fail_cmp"
    /\ epre.ev = WIFI_EVENT_STA_DISCONNECTED
    /\ epre.state = WIFI_STATE_STA_ATTEMPTING
    /\ sta_retry_count = epre.retry + 1
    /\ nreq > 0 /\ gotIpSeen

\* A step of wifi_status_get_handler, from taking the request to returning.
StatusStep == pcH' # pcH /\ (req.op = "status" \/ req'.op = "status")

\* C28: no step of a get-status changes the state, the counter, the
\* fallback flag, the interface, the radio mode, the station config or the
\* store, starts or ends an attempt at the driver, or posts an event.
C28_StatusIsPureRead ==
    [][StatusStep => UNCHANGED <<current_wifi_state, sta_retry_count, ap_enabled,
                                 ap_netif, wifi_mode, sta_config, drv, evq, nvs>>]_vars

C28_Witness ==
    /\ pcH = "send" /\ resp.op = "status"
    /\ resp.state = "failed_ap_active" /\ resp.retry_count = STA_MAX_RETRY_ATTEMPTS
    /\ resp.ap_enabled
    /\ current_wifi_state = WIFI_STATE_STA_FAILED_AP_ACTIVE
    /\ sta_retry_count = STA_MAX_RETRY_ATTEMPTS /\ ap_enabled /\ ap_netif
    /\ wifi_mode = WIFI_MODE_APSTA

\* A step of wifi_scan_get_handler, from taking the request to returning.
ScanStep == pcH' # pcH /\ (req.op = "scan" \/ req'.op = "scan")

\* C29: no step of a scan request changes the state, the counter, the
\* fallback flag or the interface.
C29_ScanLeavesStateAlone ==
    [][ScanStep => UNCHANGED <<current_wifi_state, sta_retry_count, ap_enabled,
                               ap_netif>>]_vars

\* Booted with persisted credentials, and nothing but failures since.
UnattendedFailures == sta_config_exists /\ OnlyFailuresSinceBoot

\* C30: after a boot with persisted credentials, with no address acquired
\* and no request, esp_wifi_connect has been called STA_MAX_RETRY_ATTEMPTS
\* times when the fallback comes up and never more than that: between
\* events the count is one for the start of the station plus one for each
\* of the first two counted failures, and the handling of the third failure
\* ends without a call.
C30_ThreeConnectsBeforeFallback ==
    [][/\ (UnattendedFailures' /\ FallbackComesUp)
             => connects' = STA_MAX_RETRY_ATTEMPTS
       /\ UnattendedFailures' => connects' <= STA_MAX_RETRY_ATTEMPTS
       /\ (UnattendedFailures' /\ pcE # "idle" /\ pcE' = "idle") =>
             connects' = (IF consecFails < STA_MAX_RETRY_ATTEMPTS
                          THEN consecFails + 1 ELSE STA_MAX_RETRY_ATTEMPTS)
       /\ (UnattendedFailures' /\ EvCompletes(WIFI_EVENT_STA_DISCONNECTED)
           /\ consecFails = STA_MAX_RETRY_ATTEMPTS) => ~EvIssuesConnect]_vars

C30_Witness ==
    /\ UnattendedFailures /\ pcB = "done" /\ pcE = "idle"
    /\ connects = STA_MAX_RETRY_ATTEMPTS
    /\ consecFails = STA_MAX_RETRY_ATTEMPTS
    /\ current_wifi_state = WIFI_STATE_STA_FAILED_AP_ACTIVE
    /\ ap_enabled /\ wifi_mode = WIFI_MODE_APSTA /\ drv = "idle"

\* Boot is over and neither the event handler nor a URI handler is running.
NoHandlerRunning == pcB = "done" /\ pcE = "idle" /\ pcH = "idle"

\* C31: whenever no handler is running, ap_enabled is true exactly when the
\* state is failed-with-fallback or fallback-active.
C31_FlagAgreesWithState ==
    NoHandlerRunning =>
        (ap_enabled <=> current_wifi_state \in {WIFI_STATE_STA_FAILED_AP_ACTIVE,
                                                WIFI_STATE_AP_ACTIVE})

\* C32: whenever no handler is running, the fallback is off and the state
\* is not connected, a driver event is still to come: an attempt is under
\* way at the driver, the station has a link that can be lost, or an event
\* is waiting to be handled.
C32_NeverStranded ==
    (NoHandlerRunning /\ ~ap_enabled /\ current_wifi_state # WIFI_STATE_STA_CONNECTED)
        => (drv \in {"connecting", "connected"} \/ evq # <<>>)

\* The two states in which the access point is meant to be up.
FallbackStateSet == {WIFI_STATE_STA_FAILED_AP_ACTIVE, WIFI_STATE_AP_ACTIVE}

\* The event loop hands wifi_event_handler a station disconnect.
TakesUpDisconnect ==
    /\ pcE = "idle" /\ evq # <<>> /\ Head(evq) = WIFI_EVENT_STA_DISCONNECTED
    /\ evq' = Tail(evq) /\ pcE' # "aborted"

\* The statements that write a state outside the two fallback states: the
\* last one of the address-acquired handling, and the state writes of
\* submit-credentials and of manual retry.
LeavesByRule ==
    \/ pcE = "ip_state" /\ pcE' = "idle"
    \/ pcH = "cfg_state" /\ pcH' = "dis_check"
    \/ pcH = "rt_state" /\ pcH' = "dis_check"

\* C33: a station disconnect taken up in state failed-with-fallback or
\* fallback-active is dropped at once: state, counter, flag, interface,
\* radio mode and driver are as before and the handler has returned without
\* a delay or a connect; and while the program runs, the state leaves the
\* two fallback states only in the address-acquired handling, in
\* submit-credentials or in manual retry.
C33_DisconnectInFallbackIgnored ==
    [][/\ (TakesUpDisconnect /\ current_wifi_state \in FallbackStateSet) =>
             /\ pcE' = "idle"
             /\ UNCHANGED <<current_wifi_state, sta_retry_count, ap_enabled, ap_netif,
                            wifi_mode, sta_config, drv, connects>>
       /\ (/\ current_wifi_state \in FallbackStateSet
           /\ current_wifi_state' \notin FallbackStateSet
           /\ pcH' # "aborted") => LeavesByRule]_vars

C33_Witness ==
    /\ NoHandlerRunning /\ nreq = 0 /\ ~gotIpSeen
    /\ consecFails = 1 /\ sta_retry_count = 0
    /\ current_wifi_state = WIFI_STATE_AP_ACTIVE
    /\ ap_enabled /\ wifi_mode = WIFI_MODE_APSTA
    /\ drv = "idle" /\ evq = <<>>

\* app_main finishes: the web server is started and app_main returns.
BootCompletes == pcB = "httpd" /\ pcB' = "done"

\* C34: when a boot without persisted credentials completes, the retry
\* counter is 0 and the event task is not inside handle_sta_failure: no
\* station disconnect has been counted as a failed attempt.
C34_NoCountedFailureDuringBoot ==
    [][(BootCompletes /\ ~sta_config_exists) =>
          /\ sta_retry_count' = 0
          /\ pcE' \notin {"fail_read", "fail_write", "fail_cmp", "retry_delay"}]_vars

\* C35: a get-status response carries connected = true exactly when the
\* state it reports is "connected".
C35_ConnectedFlagAgreesWithState ==
    (pcH = "send" /\ resp.op = "status") =>
        (resp.connected <=> resp.state = "connected")

\* A step after which the state is fallback-active and before which it was not.
EntersApActive ==
    current_wifi_state # WIFI_STATE_AP_ACTIVE /\ current_wifi_state' = WIFI_STATE_AP_ACTIVE

\* C36: the state becomes fallback-active only in the state write of a
\* boot that found no persisted credentials, so that after that write no
\* step of the running program brings it back; and the state write of
\* every activation of the fallback by the event task yields
\* failed-with-fallback.
C36_ApActiveOnlyAtBoot ==
    [][/\ EntersApActive =>
             (pcB = "seed_ap_state" /\ pcB' = "seed_ap_flag" /\ ~sta_config_exists)
       /\ (pcE = "en_state" /\ pcE' = "en_mode") =>
             current_wifi_state' = WIFI_STATE_STA_FAILED_AP_ACTIVE]_vars

C36_Witness ==
    /\ ~sta_config_exists /\ nreq > 0 /\ sta_config.ssid # ""
    /\ NoHandlerRunning /\ consecFails = STA_MAX_RETRY_ATTEMPTS
    /\ current_wifi_state = WIFI_STATE_STA_FAILED_AP_ACTIVE
    /\ ap_enabled /\ wifi_mode = WIFI_MODE_APSTA

\* script.js:294-329: the badge updateWiFiStatusDisplay shows for a state
\* string.
badgeText(state) ==
    IF state = "connecting" THEN "Connecting"
    ELSE IF state = "connected" THEN "Online"
    ELSE IF state = "failed_ap_active" THEN "AP Mode"
    ELSE IF state = "ap_active" THEN "AP Mode"
    ELSE "Unknown"

\* A get-status has rendered the state into its response.
StatusRendered == resp.op = "status" /\ pcH \in {"st_count", "st_ap", "send"}

\* C37: the rendering gives attempting, connected, failed-with-fallback and
\* fallback-active the strings connecting, connected, failed_ap_active and
\* ap_active, no two states share a string, the state variable always
\* holds one of the four enumerators, and every state string in a
\* get-status response is one of the four, never "unknown", so that the
\* page never shows its badge for an unknown state.
C37_StateRenderingTotal ==
    /\ StateStr(WIFI_STATE_STA_ATTEMPTING) = "connecting"
    /\ StateStr(WIFI_STATE_STA_CONNECTED) = "connected"
    /\ StateStr(WIFI_STATE_STA_FAILED_AP_ACTIVE) = "failed_ap_active"
    /\ StateStr(WIFI_STATE_AP_ACTIVE) = "ap_active"
    /\ \A s, t \in wifi_state_t : StateStr(s) = StateStr(t) => s = t
    /\ current_wifi_state \in wifi_state_t
    /\ StatusRendered =>
          /\ resp.state \in {"connecting", "connected", "failed_ap_active", "ap_active"}
          /\ badgeText(resp.state) # "Unknown"

C37_Witness ==
    /\ pcH = "send" /\ resp.op = "status"
    /\ resp.state = "ap_active" /\ current_wifi_state = WIFI_STATE_AP_ACTIVE

====
